---- MODULE Spec2Model ----
(***************************************************************************)
(* Invoice reconciliation engine: the line-item matcher, the candidate     *)
(* ranking of InvoiceMatcher.matchInvoice and the tolerance rule engine.   *)
(*                                                                         *)
(* Numbers are JavaScript numbers.  A number is modelled as a record       *)
(* [n, d]: the rational n/d in lowest terms with d > 0, or, with d = 0,    *)
(* one of the three non-finite values NaN (0/0), +Infinity (1/0) and       *)
(* -Infinity (-1/0).  Arithmetic and comparison follow IEEE 754 on these   *)
(* (NaN compares false with everything); rounding of finite results to    *)
(* 53 bits is not modelled.                                                *)
(***************************************************************************)
EXTENDS Integers, Sequences, FiniteSets, TLC

VARIABLES
    rateOf,          \* exchange rate per ordered pair of distinct currencies
    invItem,         \* matchesLineItem: the invoice line item
    poItem,          \* matchesLineItem: the purchase-order line item
    itemOut,         \* matchesLineItem / calculateLineItemScore: last outcome
    invoice,         \* matchInvoice: the invoice
    purchaseOrders,  \* matchInvoice: the candidate list
    matchOut,        \* matchInvoice: last outcome
    rules,           \* RuleEngine.rules
    evalOut,         \* RuleEngine.evaluate: last outcome
    matchThrown,     \* matchInvoice: the error it was rejected with, if any
    rateCache,       \* CurrencyConverter.rateCache: cache key -> CacheEntry
    now,             \* Date.now(), in units of one cache lifetime
    convertCalls,    \* CurrencyConverter.convert: the calls and their positions
    callsStarted,    \* number of convert calls started so far
    awaiting,        \* cache keys no convert call has asked for since clearCache
    simA,            \* similarity: first string
    simB,            \* similarity: second string
    simOut,          \* similarity: last outcome
    data,            \* InMemoryRepository.data: id -> entity
    repoOut          \* InMemoryRepository: the last call and its result

matcherVars == <<rateOf, invItem, poItem, itemOut, invoice, purchaseOrders,
                 matchOut, matchThrown>>

engineVars == <<rules, evalOut>>

converterVars == <<rateCache, now, convertCalls, callsStarted, awaiting>>

stringVars == <<simA, simB, simOut>>

repositoryVars == <<data, repoOut>>

vars == <<matcherVars, engineVars, converterVars, stringVars, repositoryVars>>

-----------------------------------------------------------------------------
(* JavaScript numbers *)

AbsInt(i) == IF i < 0 THEN -i ELSE i

SignInt(i) == IF i < 0 THEN -1 ELSE IF i > 0 THEN 1 ELSE 0

RECURSIVE GCD(_, _)
GCD(a, b) == IF b = 0 THEN a ELSE GCD(b, a % b)

\* n/d brought to the canonical record; d = 0 gives NaN or an infinity
Norm(n, d) ==
    IF d = 0 THEN [n |-> SignInt(n), d |-> 0]
    ELSE LET s == IF d < 0 THEN -1 ELSE 1
             g == GCD(AbsInt(n), AbsInt(d))
         IN [n |-> (s * n) \div g, d |-> (s * d) \div g]

Q(n, d) == Norm(n, d)

N(i) == [n |-> i, d |-> 1]

NaN == [n |-> 0, d |-> 0]

Infinity == [n |-> 1, d |-> 0]

IsNaN(a) == a.d = 0 /\ a.n = 0

IsFinite(a) == a.d # 0

Neg(a) == [n |-> -a.n, d |-> a.d]

MathAbs(a) == [n |-> AbsInt(a.n), d |-> a.d]

\* Sums are taken over the least common denominator and products are
\* cross-reduced first, which keeps the intermediate integers small
Add(a, b) ==
    IF a.d = 0 /\ b.d = 0 THEN (IF a.n = b.n THEN a ELSE NaN)
    ELSE IF a.d = 0 THEN a
    ELSE IF b.d = 0 THEN b
    ELSE LET g == GCD(a.d, b.d)
         IN Norm(a.n * (b.d \div g) + b.n * (a.d \div g), (a.d \div g) * b.d)

Sub(a, b) == Add(a, Neg(b))

Mul(a, b) ==
    IF a.d = 0 \/ b.d = 0 THEN Norm(SignInt(a.n) * SignInt(b.n), 0)
    ELSE LET g1 == GCD(AbsInt(a.n), b.d)
             g2 == GCD(AbsInt(b.n), a.d)
         IN Norm((a.n \div g1) * (b.n \div g2), (a.d \div g2) * (b.d \div g1))

\* 1/b: 1/0 is +Infinity, 1/Infinity is 0, 1/NaN is NaN
Recip(b) ==
    IF b.d = 0 THEN (IF b.n = 0 THEN NaN ELSE N(0))
    ELSE IF b.n = 0 THEN Infinity
    ELSE Norm(b.d, b.n)

Div(a, b) == Mul(a, Recip(b))

\* n1/d1 < n2/d2 for d1, d2 > 0, by integer parts and then the reciprocals
\* of the fractional parts
RECURSIVE LtFraction(_, _, _, _)
LtFraction(n1, d1, n2, d2) ==
    LET q1 == n1 \div d1
        q2 == n2 \div d2
        r1 == n1 % d1
        r2 == n2 % d2
    IN IF q1 # q2 THEN q1 < q2
       ELSE IF r2 = 0 THEN FALSE
       ELSE IF r1 = 0 THEN TRUE
       ELSE LtFraction(d2, r2, d1, r1)

Lt(a, b) ==
    /\ ~IsNaN(a)
    /\ ~IsNaN(b)
    /\ IF a.d = 0 \/ b.d = 0
       THEN a # b /\ (a = Neg(Infinity) \/ b = Infinity)
       ELSE LtFraction(a.n, a.d, b.n, b.d)

Le(a, b) == ~IsNaN(a) /\ ~IsNaN(b) /\ (a = b \/ Lt(a, b))

Gt(a, b) == Lt(b, a)

Ge(a, b) == Le(b, a)

\* Truncation in place of rounding
MathFloor(a) ==
    IF a.d = 0 THEN a ELSE N(a.n \div a.d)

\* Math.round: the nearest integer, halves towards +Infinity
MathRound(a) ==
    IF a.d = 0 THEN a ELSE N((2 * a.n + a.d) \div (2 * a.d))

-----------------------------------------------------------------------------
(* Strings: sequences of one-character strings *)

ToLowerChar(c) ==
    CASE c = "A" -> "a"
      [] c = "B" -> "b"
      [] c = "W" -> "w"
      [] OTHER -> c

ToLowerCase(s) == [i \in 1..Len(s) |-> ToLowerChar(s[i])]

Min3(x, y, z) ==
    IF x <= y /\ x <= z THEN x ELSE IF y <= z THEN y ELSE z

Max2(x, y) == IF x >= y THEN x ELSE y

\* Row i (i >= 1) of the distance matrix, filled left to right from row i-1.
\* A row is the sequence matrix[i][0..len2], cell j stored at index j+1.
RECURSIVE FillRow(_, _, _, _, _)
FillRow(prev, row, i, str1, str2) ==
    LET j == Len(row)
    IN IF j > Len(str2) THEN row
       ELSE LET cost == IF str1[i] = str2[j] THEN 0 ELSE 1
                cell == Min3(prev[j + 1] + 1, row[j] + 1, prev[j] + cost)
            IN FillRow(prev, Append(row, cell), i, str1, str2)

RECURSIVE LastRow(_, _, _, _)
LastRow(prev, i, str1, str2) ==
    IF i > Len(str1) THEN prev
    ELSE LastRow(FillRow(prev, <<i>>, i, str1, str2), i + 1, str1, str2)

\* matrix[len1][len2]
EditDistance(str1, str2) ==
    LastRow([j \in 1..(Len(str2) + 1) |-> j - 1], 1, str1, str2)[Len(str2) + 1]

\* The distance divided by the sum of the lengths
calculateLevenshteinOverSum(str1, str2) ==
    LET distance == EditDistance(str1, str2)
    IN Sub(N(1), Div(N(distance), N(Len(str1) + Len(str2))))

calculateLevenshtein(str1, str2) ==
    LET distance == EditDistance(str1, str2)
        maxLen == Max2(Len(str1), Len(str2))
    IN Sub(N(1), Div(N(distance), N(maxLen)))

-----------------------------------------------------------------------------
(* CurrencyConverter.convert, given the rate its lookup returned *)

TenThousand == N(10000)

convert(amount, from, to, rate) ==
    IF from = to
    THEN [amount |-> amount, currency |-> to]
    ELSE LET converted == Mul(amount, rate)
             rounded == Div(MathRound(Mul(converted, TenThousand)), TenThousand)
         IN [amount |-> rounded, currency |-> to]

\* The invoice-side unit price as a number in the currency `to`
convertPrice(money, to) ==
    IF money.currency = to
    THEN convert(N(money.amount), money.currency, to, N(1)).amount
    ELSE convert(N(money.amount), money.currency, to,
                 rateOf[<<money.currency, to>>]).amount

-----------------------------------------------------------------------------
(* InvoiceMatcher: line items *)

DESCRIPTION_THRESHOLD == Q(85, 100)

PRICE_TOLERANCE == Q(2, 100)

QUANTITY_TOLERANCE == Q(2, 100)

CONFIDENCE_THRESHOLD == Q(9, 10)

WidgetA == <<"W", "i", "d", "g", "e", "t", "A">>

widgeta == <<"w", "i", "d", "g", "e", "t", "a">>

widgetb == <<"w", "i", "d", "g", "e", "t", "b">>

Descriptions == {<<>>, <<"b">>, WidgetA, widgeta, widgetb}

LowerCased == {ToLowerCase(d) : d \in Descriptions}

\* calculateLevenshtein tabulated once over the lower-cased descriptions in use
LevenshteinOf ==
    [pair \in LowerCased \X LowerCased |-> calculateLevenshtein(pair[1], pair[2])]
        @@ <<>>

descSimilarityOf(inv, po) ==
    LevenshteinOf[<<ToLowerCase(inv.description), ToLowerCase(po.description)>>]

qtyDiffOf(inv, po) ==
    Div(MathAbs(Sub(N(inv.quantity), N(po.quantity))), N(po.quantity))

priceDiffOf(inv, po) ==
    Div(MathAbs(Sub(convertPrice(inv.unitPrice, po.unitPrice.currency),
                    N(po.unitPrice.amount))),
        N(po.unitPrice.amount))

matchesLineItem(inv, po) ==
    IF Lt(descSimilarityOf(inv, po), DESCRIPTION_THRESHOLD) THEN FALSE
    ELSE IF Gt(qtyDiffOf(inv, po), QUANTITY_TOLERANCE) THEN FALSE
    ELSE IF Gt(priceDiffOf(inv, po), PRICE_TOLERANCE) THEN FALSE
    ELSE TRUE

calculateLineItemScore(inv, po) ==
    Add(Add(Mul(Q(4, 10), descSimilarityOf(inv, po)),
            Mul(Q(3, 10), Sub(N(1), qtyDiffOf(inv, po)))),
        Mul(Q(3, 10), Sub(N(1), priceDiffOf(inv, po))))

-----------------------------------------------------------------------------
(* InvoiceMatcher: candidates *)

\* Array.prototype.find: the index of the first element satisfying the
\* predicate, 0 when there is none
RECURSIVE FindFrom(_, _, _)
FindFrom(inv, items, i) ==
    IF i > Len(items) THEN 0
    ELSE IF matchesLineItem(inv, items[i]) THEN i
    ELSE FindFrom(inv, items, i + 1)

RECURSIVE ScoresFrom(_, _, _, _)
ScoresFrom(invItems, po, k, scores) ==
    IF k > Len(invItems) THEN scores
    ELSE LET j == FindFrom(invItems[k], po.lineItems, 1)
         IN IF j # 0
            THEN ScoresFrom(invItems, po, k + 1,
                     Append(scores, calculateLineItemScore(invItems[k], po.lineItems[j])))
            ELSE ScoresFrom(invItems, po, k + 1, scores)

\* scores.reduce((sum, s) => sum + s, 0), from element i on
RECURSIVE SumFrom(_, _, _)
SumFrom(scores, i, sum) ==
    IF i > Len(scores) THEN sum ELSE SumFrom(scores, i + 1, Add(sum, scores[i]))

\* The mean taken over every invoice line item instead of the matched ones
calculateMatchScoreOverTotal(inv, po) ==
    LET scores == ScoresFrom(inv.lineItems, po, 1, <<>>)
    IN [confidence |-> Div(SumFrom(scores, 1, N(0)), N(Len(inv.lineItems))),
        matchedItems |-> Len(scores),
        totalItems |-> Len(inv.lineItems)]

calculateMatchScore(inv, po) ==
    LET scores == ScoresFrom(inv.lineItems, po, 1, <<>>)
    IN [confidence |-> Div(SumFrom(scores, 1, N(0)), N(Len(scores))),
        matchedItems |-> Len(scores),
        totalItems |-> Len(inv.lineItems)]

\* The admission test written as "not below the threshold"
AdmittedUnlessBelow(score) == ~Lt(score.confidence, CONFIDENCE_THRESHOLD)

Admitted(score) == Ge(score.confidence, CONFIDENCE_THRESHOLD)

RECURSIVE CandidatesFrom(_, _, _)
CandidatesFrom(inv, pos, i) ==
    IF i > Len(pos) THEN <<>>
    ELSE LET score == calculateMatchScore(inv, pos[i])
             rest == CandidatesFrom(inv, pos, i + 1)
         IN IF Admitted(score)
            THEN <<[purchaseOrder |-> pos[i], score |-> score]>> \o rest
            ELSE rest

\* The comparator (a, b) => b.score.confidence - a.score.confidence
CompareCandidates(a, b) == Sub(b.score.confidence, a.score.confidence)

\* An unstable insertion: x goes before the elements it ties with
RECURSIVE InsertBeforeTies(_, _)
InsertBeforeTies(sorted, x) ==
    IF sorted = <<>> THEN <<x>>
    ELSE IF Gt(CompareCandidates(x, Head(sorted)), N(0))
         THEN <<Head(sorted)>> \o InsertBeforeTies(Tail(sorted), x)
         ELSE <<x>> \o sorted

\* Stable sort: x goes before the first element that the comparator puts
\* strictly after it, hence after every element it ties with
RECURSIVE InsertStable(_, _)
InsertStable(sorted, x) ==
    IF sorted = <<>> THEN <<x>>
    ELSE IF Gt(CompareCandidates(x, Head(sorted)), N(0))
         THEN <<Head(sorted)>> \o InsertStable(Tail(sorted), x)
         ELSE IF Lt(CompareCandidates(x, Head(sorted)), N(0))
              THEN <<x>> \o sorted
              ELSE <<Head(sorted)>> \o InsertStable(Tail(sorted), x)

RECURSIVE SortCandidates(_)
SortCandidates(cs) ==
    IF cs = <<>> THEN <<>>
    ELSE InsertStable(SortCandidates(SubSeq(cs, 1, Len(cs) - 1)), cs[Len(cs)])

\* Array.prototype.slice(from, to) with 0-based bounds
Slice(s, from, to) ==
    SubSeq(s, from + 1, IF to < Len(s) THEN to ELSE Len(s))

NoPurchaseOrder == [id |-> 0, lineItems |-> <<>>, currency |-> "none"]

explainMatch(inv, best) ==
    IF best = <<>>
    THEN <<"No matching purchase orders found">>
    ELSE <<"Matched line items", "Overall confidence">>
         \o (IF inv.currency # best[1].purchaseOrder.currency
             THEN <<"Currency conversion applied">>
             ELSE <<>>)

\* matchInvoice explaining the result without its best candidate
matchInvoiceUnexplained(inv, pos) ==
    LET candidates == SortCandidates(CandidatesFrom(inv, pos, 1))
    IN [bestMatch |-> IF candidates = <<>> THEN NoPurchaseOrder
                      ELSE candidates[1].purchaseOrder,
        confidence |-> IF candidates = <<>> THEN N(0)
                       ELSE candidates[1].score.confidence,
        alternatives |-> Slice(candidates, 1, 4),
        reasons |-> explainMatch(inv, <<>>)]

\* matchInvoice without the "?? 0" default of confidence
matchInvoiceNoDefault(inv, pos) ==
    LET candidates == SortCandidates(CandidatesFrom(inv, pos, 1))
    IN [bestMatch |-> IF candidates = <<>> THEN NoPurchaseOrder
                      ELSE candidates[1].purchaseOrder,
        confidence |-> IF candidates = <<>> THEN NaN
                       ELSE candidates[1].score.confidence,
        alternatives |-> Slice(candidates, 1, 4),
        reasons |-> explainMatch(inv, Slice(candidates, 0, 1))]

matchInvoice(inv, pos) ==
    LET candidates == SortCandidates(CandidatesFrom(inv, pos, 1))
    IN [bestMatch |-> IF candidates = <<>> THEN NoPurchaseOrder
                      ELSE candidates[1].purchaseOrder,
        confidence |-> IF candidates = <<>> THEN N(0)
                       ELSE candidates[1].score.confidence,
        alternatives |-> Slice(candidates, 1, 4),
        reasons |-> explainMatch(inv, Slice(candidates, 0, 1))]

-----------------------------------------------------------------------------
(* Inputs *)

Currencies == {"USD", "EUR"}

CurrencyPairs == {p \in Currencies \X Currencies : p[1] # p[2]}

\* Exchange rates the rate source may have returned
ParityRates == [p \in CurrencyPairs |-> IF p[1] = "EUR" THEN Q(101, 100) ELSE Q(99, 100)]

DoubleRates == [p \in CurrencyPairs |-> IF p[1] = "EUR" THEN Q(2, 1) ELSE Q(1, 2)]

RateTables == {ParityRates, DoubleRates}

Quantities == {0, 50, 51, 52}

Amounts == {0, 50, 60, 100, 101}

Item(desc, qty, amt, cur) ==
    [description |-> desc, quantity |-> qty,
     unitPrice |-> [amount |-> amt, currency |-> cur]]

LineItems ==
    {Item(desc, qty, amt, cur) :
        desc \in Descriptions, qty \in Quantities, amt \in Amounts, cur \in Currencies}

NoItemOut == [op |-> "none", matches |-> FALSE, score |-> NaN]

InvoicePool ==
    { [lineItems |-> <<Item(widgeta, 50, 100, "USD")>>, currency |-> "USD"],
      [lineItems |-> <<Item(WidgetA, 50, 100, "USD"), Item(<<"b">>, 51, 50, "USD")>>,
       currency |-> "USD"],
      [lineItems |-> <<Item(widgeta, 50, 50, "EUR")>>, currency |-> "EUR"],
      [lineItems |-> <<Item(widgeta, 0, 0, "USD"), Item(widgetb, 52, 60, "USD")>>,
       currency |-> "USD"],
      [lineItems |-> <<Item(widgeta, 50, 100, "USD"), Item(WidgetA, 50, 100, "USD")>>,
       currency |-> "USD"] }

PO(id, items) == [id |-> id, lineItems |-> items, currency |-> "USD"]

PurchaseOrderPool ==
    { PO(1, <<Item(widgeta, 50, 100, "USD")>>),
      PO(2, <<Item(<<"b">>, 52, 50, "USD"), Item(WidgetA, 50, 100, "USD")>>),
      PO(3, <<Item(widgetb, 51, 101, "USD")>>),
      PO(4, <<Item(widgeta, 50, 101, "USD")>>),
      PO(5, <<Item(widgeta, 0, 0, "USD"), Item(<<"b">>, 52, 60, "USD")>>),
      PO(6, <<Item(widgeta, 51, 100, "USD")>>) }

MaxCandidates == 5

\* Candidate lists: distinct purchase orders, in any order
RECURSIVE ListsOver(_, _)
ListsOver(pool, n) ==
    IF n = 0 THEN {<<>>}
    ELSE LET shorter == ListsOver(pool, n - 1)
         IN shorter \cup
            {Append(l, po) : <<l, po>> \in
                {lp \in shorter \X pool :
                    /\ Len(lp[1]) = n - 1
                    /\ \A i \in 1..Len(lp[1]) : lp[1][i].id # lp[2].id}}

CandidateLists == ListsOver(PurchaseOrderPool, MaxCandidates)

NoMatchOut ==
    [called |-> FALSE, scored |-> <<>>, bestMatch |-> NoPurchaseOrder, confidence |-> NaN,
     alternatives |-> <<>>, reasons |-> <<>>]

-----------------------------------------------------------------------------
(* Rule engine: values, rules and results *)

\* A field value of the context: a number, a string that is no numeral, or
\* undefined (the field is missing)
Number(i) == [t |-> "number", v |-> N(i)]

Text == [t |-> "string", v |-> NaN]

Undefined == [t |-> "undefined", v |-> NaN]

\* The numeric coercion that the operators - and / apply to their operands
ToNumber(x) == IF x.t = "number" THEN x.v ELSE NaN

RuleResult(passed, message, severity) ==
    [passed |-> passed, message |-> message, severity |-> severity]

ToleranceRule(tolerance, field) ==
    [kind |-> "tolerance", tolerance |-> tolerance, field |-> field,
     result |-> RuleResult(TRUE, "", "info")]

\* A rule object whose evaluate returns a fixed result
FixedRule(result) ==
    [kind |-> "fixed", tolerance |-> 0, field |-> "", result |-> result]

\* The warning band measured from the tolerance instead of from zero
ToleranceRuleEvaluateBandAboveTolerance(rule, context) ==
    LET expected == ToNumber(context.purchaseOrder[rule.field])
        actual == ToNumber(context.invoice[rule.field])
        diff == Div(MathAbs(Sub(actual, expected)), expected)
    IN IF Le(diff, Div(N(rule.tolerance), N(100)))
       THEN RuleResult(TRUE, "within tolerance", "info")
       ELSE RuleResult(FALSE, "exceeds tolerance",
                       IF Le(diff, Add(Div(N(rule.tolerance), N(100)), Q(5, 100)))
                       THEN "warning" ELSE "error")

ToleranceRuleEvaluate(rule, context) ==
    LET expected == ToNumber(context.purchaseOrder[rule.field])
        actual == ToNumber(context.invoice[rule.field])
        diff == Div(MathAbs(Sub(actual, expected)), expected)
    IN IF Le(diff, Div(N(rule.tolerance), N(100)))
       THEN RuleResult(TRUE, "within tolerance", "info")
       ELSE RuleResult(FALSE, "exceeds tolerance",
                       IF Le(diff, Q(5, 100)) THEN "warning" ELSE "error")

RuleEvaluate(rule, context) ==
    IF rule.kind = "tolerance" THEN ToleranceRuleEvaluate(rule, context)
    ELSE rule.result

RuleExplain(rule) ==
    IF rule.kind = "tolerance"
    THEN <<rule.field, "must be within", rule.tolerance, "% of expected value">>
    ELSE <<rule.result.message, "fixed", 0, "">>

NoRuleResult == RuleResult(FALSE, "none", "none")

NoEvaluationResult == [passed |-> FALSE, results |-> <<>>, warnings |-> <<>>]

NoError ==
    [name |-> "none", code |-> "none", status |-> 0, message |-> <<>>,
     rule |-> <<>>, result |-> NoRuleResult]

BusinessRuleViolationError(message, details) ==
    [name |-> "BusinessRuleViolationError", code |-> "BUSINESS_RULE_VIOLATION",
     status |-> 422, message |-> message,
     rule |-> details.rule, result |-> details.result]

IsWarning(r) == ~r.passed /\ r.severity = "warning"

IsFailure(r) == ~r.passed

\* The returned object with every failed result counted as a warning
EvaluationResultAllFailures(results) ==
    [passed |-> \A k \in 1..Len(results) : results[k].passed,
     results |-> results,
     warnings |-> SelectSeq(results, IsFailure)]

\* The object evaluate returns once the loop has ended
EvaluationResultOf(results) ==
    [passed |-> \A k \in 1..Len(results) : results[k].passed,
     results |-> results,
     warnings |-> SelectSeq(results, IsWarning)]

ThrowFor(rs, i, result) ==
    BusinessRuleViolationError(<<"Rule violation: ">> \o RuleExplain(rs[i]),
                               [rule |-> RuleExplain(rs[i]), result |-> result])

\* The loop with the throw deferred until every rule has been evaluated
RECURSIVE EvaluateThenThrow(_, _, _, _, _)
EvaluateThenThrow(rs, context, i, results, calls) ==
    IF i > Len(rs)
    THEN LET failing == {k \in 1..Len(results) :
                            ~results[k].passed /\ results[k].severity = "error"}
         IN IF failing = {}
            THEN [outcome |-> "returned",
                  returned |-> EvaluationResultOf(results),
                  thrown |-> NoError,
                  calls |-> calls]
            ELSE LET f == CHOOSE k \in failing : \A m \in failing : k <= m
                 IN [outcome |-> "thrown",
                     returned |-> NoEvaluationResult,
                     thrown |-> ThrowFor(rs, f, results[f]),
                     calls |-> calls]
    ELSE LET result == RuleEvaluate(rs[i], context)
         IN EvaluateThenThrow(rs, context, i + 1, Append(results, result),
                              Append(calls, [rule |-> i, result |-> result]))

\* The loop left at the first result that did not pass, whatever its severity
RECURSIVE EvaluateUntilNotPassed(_, _, _, _, _)
EvaluateUntilNotPassed(rs, context, i, results, calls) ==
    IF i > Len(rs)
    THEN [outcome |-> "returned",
          returned |-> EvaluationResultOf(results),
          thrown |-> NoError,
          calls |-> calls]
    ELSE LET result == RuleEvaluate(rs[i], context)
             called == Append(calls, [rule |-> i, result |-> result])
         IN IF ~result.passed /\ result.severity = "error"
            THEN [outcome |-> "thrown",
                  returned |-> NoEvaluationResult,
                  thrown |-> ThrowFor(rs, i, result),
                  calls |-> called]
            ELSE IF ~result.passed
            THEN [outcome |-> "returned",
                  returned |-> EvaluationResultOf(Append(results, result)),
                  thrown |-> NoError,
                  calls |-> called]
            ELSE EvaluateUntilNotPassed(rs, context, i + 1,
                                        Append(results, result), called)

\* The loop of RuleEngine.evaluate from rule i on; `calls` lists, in order,
\* the rules whose evaluate was invoked, each with what it returned
RECURSIVE EvaluateFrom(_, _, _, _, _)
EvaluateFrom(rs, context, i, results, calls) ==
    IF i > Len(rs)
    THEN [outcome |-> "returned",
          returned |-> EvaluationResultOf(results),
          thrown |-> NoError,
          calls |-> calls]
    ELSE LET result == RuleEvaluate(rs[i], context)
             called == Append(calls, [rule |-> i, result |-> result])
         IN IF ~result.passed /\ result.severity = "error"
            THEN [outcome |-> "thrown",
                  returned |-> NoEvaluationResult,
                  thrown |-> ThrowFor(rs, i, result),
                  calls |-> called]
            ELSE EvaluateFrom(rs, context, i + 1, Append(results, result), called)

NoContext ==
    [invoice |-> [f \in {"totalAmount", "poNumber"} |-> Undefined],
     purchaseOrder |-> [f \in {"totalAmount", "poNumber"} |-> Undefined]]

NoEvalOut ==
    [outcome |-> "none", returned |-> NoEvaluationResult, thrown |-> NoError,
     calls |-> <<>>, rules |-> <<>>, context |-> NoContext]

-----------------------------------------------------------------------------
(* Rule engine: inputs *)

MaxRules == 3

RulePool ==
    { ToleranceRule(2, "totalAmount"),
      ToleranceRule(5, "totalAmount"),
      FixedRule(RuleResult(TRUE, "ok", "info")),
      FixedRule(RuleResult(FALSE, "note", "info")),
      FixedRule(RuleResult(FALSE, "warn", "warning")),
      FixedRule(RuleResult(FALSE, "fail", "error")) }

\* Invoice-side and purchase-order-side values of totalAmount
ActualValues ==
    {Number(100), Number(101), Number(103), Number(106), Number(110), Undefined}

ExpectedValues == {Number(100), Number(0), Text}

Contexts ==
    { [invoice |-> [f \in {"totalAmount", "poNumber"} |->
                       IF f = "totalAmount" THEN a ELSE Undefined],
       purchaseOrder |-> [f \in {"totalAmount", "poNumber"} |->
                       IF f = "totalAmount" THEN e ELSE Text]] :
        a \in ActualValues, e \in ExpectedValues }

-----------------------------------------------------------------------------
(* matchInvoice when the rate lookup behind convertPrice fails *)

\* The error of a failed rate fetch (converter.ts line 63)
RateFetchFailure ==
    [name |-> "Error", code |-> "none", status |-> 0,
     message |-> <<"Failed to fetch exchange rate">>,
     rule |-> <<>>, result |-> NoRuleResult]

\* A rate whose lookup throws instead of returning a number
RateUnavailable == [n |-> 0, d |-> 0, thrown |-> RateFetchFailure]

FailingRates == [p \in CurrencyPairs |-> RateUnavailable]

\* convertPrice throws when it needs a rate and the lookup fails
convertPriceThrows(money, to) ==
    /\ money.currency # to
    /\ "thrown" \in DOMAIN rateOf[<<money.currency, to>>]

\* matchesLineItem reaches convertPrice only past its first two early returns
matchesLineItemThrows(inv, po) ==
    /\ ~Lt(descSimilarityOf(inv, po), DESCRIPTION_THRESHOLD)
    /\ ~Gt(qtyDiffOf(inv, po), QUANTITY_TOLERANCE)
    /\ convertPriceThrows(inv.unitPrice, po.unitPrice.currency)

\* find stops at the first item that matches; a throw on the way ends it
RECURSIVE FindThrows(_, _, _)
FindThrows(inv, items, i) ==
    IF i > Len(items) THEN FALSE
    ELSE IF matchesLineItemThrows(inv, items[i]) THEN TRUE
    ELSE IF matchesLineItem(inv, items[i]) THEN FALSE
    ELSE FindThrows(inv, items, i + 1)

calculateMatchScoreThrows(inv, po) ==
    \E k \in 1..Len(inv.lineItems) : FindThrows(inv.lineItems[k], po.lineItems, 1)

\* Every error inside the loop is caught and the candidate skipped
matchInvoiceCatchesAll(inv, pos) == FALSE

\* No try/catch in matchInvoice, calculateMatchScore or matchesLineItem: the
\* first throw rejects the promise matchInvoice returned
matchInvoiceThrows(inv, pos) ==
    \E i \in 1..Len(pos) : calculateMatchScoreThrows(inv, pos[i])

-----------------------------------------------------------------------------
(* CurrencyConverter: the rate cache and the convert calls *)

\* config.exchangeRate.cacheTtl * 1000 ms, the unit of time of the model
CACHE_TTL == 1

\* The convert calls that can be in progress at once
Callers == {1, 2}

MaxCalls == 2

MaxTime == 2

\* date?.toISOString() ?? "latest"
Dates == {"latest"}

\* `${from}-${to}-${date}`: one key per triple, currency codes holding no "-"
cacheKey(from, to, date) == <<from, to, date>>

Keys == {cacheKey(f, t, d) : f \in Currencies, t \in Currencies, d \in Dates}

ConvertAmounts == {Q(1, 10000), Q(12344, 100000)}

FetchedRates == {Q(101, 100), Q(1, 2)}

Response(kind, rate) == [kind |-> kind, rate |-> rate]

\* What the exchange-rate service can answer: no answer at all, a non-2xx
\* status, a body that is not JSON, a JSON body whose rates lack the target
\* currency, and a well-formed body
Responses ==
    {Response(k, NaN) : k \in {"networkError", "notOk", "invalidJson", "noRateForTarget"}}
        \cup {Response("ok", r) : r \in FetchedRates}

NoMoney == [amount |-> NaN, currency |-> "none"]

Money(amount, currency) == [amount |-> amount, currency |-> currency]

IdleCall ==
    [pc |-> "idle", id |-> 0, amount |-> N(0), from |-> "USD", to |-> "USD",
     date |-> "latest", fetches |-> 0, gets |-> 0, rate |-> NaN,
     result |-> NoMoney, error |-> "none", response |-> "none",
     firstAfterClear |-> FALSE, seenFrom |-> 0, stale |-> FALSE, after |-> {}]

\* The cache answers up to and including the instant the entry expires
cacheHitAtExpiry(key, cache, time) ==
    key \in DOMAIN cache /\ cache[key].expiresAt >= time

\* The cache answers when it holds the key and the entry has not expired
cacheMissAlways(key, cache, time) == FALSE

cacheHit(key, cache, time) ==
    key \in DOMAIN cache /\ cache[key].expiresAt > time

\* convert without the from === to shortcut
convertStartAlwaysLookup(amount, from, to, date, cache, time) ==
    LET key == cacheKey(from, to, date)
    IN IF cacheHit(key, cache, time)
       THEN [pc |-> "done",
             result |-> convert(amount, from, to, cache[key].rate.rate),
             gets |-> 1, fetches |-> 0, rate |-> cache[key].rate.rate]
       ELSE [pc |-> "fetching", result |-> NoMoney, gets |-> 1,
             fetches |-> 1, rate |-> NaN]

\* convert up to its return or to the point where it waits for the fetch
convertStart(amount, from, to, date, cache, time) ==
    IF from = to
    THEN [pc |-> "done", result |-> Money(amount, to), gets |-> 0, fetches |-> 0,
          rate |-> NaN]
    ELSE LET key == cacheKey(from, to, date)
         IN IF cacheHit(key, cache, time)
            THEN [pc |-> "done",
                  result |-> convert(amount, from, to, cache[key].rate.rate),
                  gets |-> 1, fetches |-> 0, rate |-> cache[key].rate.rate]
            ELSE [pc |-> "fetching", result |-> NoMoney, gets |-> 1,
                  fetches |-> 1, rate |-> NaN]

\* Every answer of the service taken for a failure
fetchedRateRejectsAll(response, from, to) ==
    [thrown |-> TRUE, error |-> "Error: Failed to fetch exchange rate", rate |-> NaN]

\* The try block after the fetch: an error thrown, or the ExchangeRate built
\* from data.rates[to] (undefined, a NaN in arithmetic, when the body has no
\* rate for `to`)
fetchedRate(response, from, to) ==
    CASE response.kind = "networkError" ->
            [thrown |-> TRUE, error |-> "TypeError: fetch failed", rate |-> NaN]
      [] response.kind = "notOk" ->
            [thrown |-> TRUE, error |-> "Error: Failed to fetch exchange rate",
             rate |-> NaN]
      [] response.kind = "invalidJson" ->
            [thrown |-> TRUE, error |-> "SyntaxError", rate |-> NaN]
      [] response.kind = "noRateForTarget" ->
            [thrown |-> FALSE, error |-> "none", rate |-> NaN]
      [] OTHER ->
            [thrown |-> FALSE, error |-> "none", rate |-> response.rate]

CacheEntry(from, to, rate, expiresAt, storedBy) ==
    [rate |-> [from |-> from, to |-> to, rate |-> rate],
     expiresAt |-> expiresAt, storedBy |-> storedBy]

\* The entry written in two steps, the rate first
cacheSetRateFirst(cache, key, entry) ==
    (key :> [rate |-> entry.rate, storedBy |-> entry.storedBy]) @@ cache

\* rateCache.set(cacheKey, {rate, expiresAt: Date.now() + CACHE_TTL})
cacheSet(cache, key, entry) == (key :> entry) @@ cache

ConverterIdle ==
    /\ rateCache = <<>>
    /\ now = 0
    /\ convertCalls = [p \in Callers |-> IdleCall]
    /\ callsStarted = 0
    /\ awaiting = {}

StringsIdle ==
    /\ simA = <<>>
    /\ simB = <<>>
    /\ simOut = [op |-> "none", similarity |-> NaN]

\* Ok(value) and Err(error) of shared/types/result.ts
Ok(value) == [ok |-> TRUE, value |-> value]

Err(error) == [ok |-> FALSE, error |-> error]

\* `Entity missing: ${id}`
EntityMissing(id) == <<"Entity missing", id>>

\* { ...entity, id }: the properties of entity with id set last
SpreadWithId(entity, id) == ("id" :> id) @@ entity

\* InMemoryRepository.create with the id that crypto.randomUUID() returned
create(store, entity, id) ==
    LET newEntity == SpreadWithId(entity, id)
    IN [data |-> (id :> newEntity) @@ store, result |-> Ok(newEntity)]

\* { ...existing, id, ...updates }: the id set before the updates are spread
updateSpreadingUpdatesLast(store, id, updates) ==
    IF id \notin DOMAIN store
    THEN [data |-> store, result |-> Err(EntityMissing(id))]
    ELSE LET updated == updates @@ ("id" :> id) @@ store[id]
         IN [data |-> (id :> updated) @@ store, result |-> Ok(updated)]

\* InMemoryRepository.update: { ...existing, ...updates, id }
update(store, id, updates) ==
    IF id \notin DOMAIN store
    THEN [data |-> store, result |-> Err(EntityMissing(id))]
    ELSE LET updated == SpreadWithId(updates @@ store[id], id)
         IN [data |-> (id :> updated) @@ store, result |-> Ok(updated)]

\* InMemoryRepository.delete
delete(store, id) ==
    IF id \notin DOMAIN store
    THEN [data |-> store, result |-> Err(EntityMissing(id))]
    ELSE [data |-> [k \in DOMAIN store \ {id} |-> store[k]],
          result |-> Ok(Undefined)]

NoRepoOut ==
    [op |-> "none", id |-> Undefined, given |-> Undefined, before |-> <<>>,
     result |-> Ok(Undefined)]

RepositoryIdle ==
    /\ data = <<>>
    /\ repoOut = NoRepoOut

-----------------------------------------------------------------------------
(* The line-item gate and score, applied to one pair *)

InitItem ==
    /\ rateOf \in RateTables
    /\ invItem \in LineItems
    /\ poItem \in LineItems
    /\ itemOut = NoItemOut
    /\ invoice = [lineItems |-> <<>>, currency |-> "USD"]
    /\ purchaseOrders = <<>>
    /\ matchOut = NoMatchOut
    /\ rules = <<>>
    /\ evalOut = NoEvalOut
    /\ matchThrown = NoError
    /\ ConverterIdle
    /\ RepositoryIdle
    /\ StringsIdle

MatchesLineItem ==
    /\ itemOut.op = "none"
    /\ itemOut' = [op |-> "matches",
                   matches |-> matchesLineItem(invItem, poItem),
                   score |-> calculateLineItemScore(invItem, poItem)]
    /\ UNCHANGED <<repositoryVars, rateOf, invItem, poItem, invoice, purchaseOrders,
                   matchOut, matchThrown, engineVars, converterVars, stringVars>>

NextItem == MatchesLineItem

SpecItem == InitItem /\ [][NextItem]_vars

-----------------------------------------------------------------------------
(* matchInvoice, applied to one invoice and one candidate list *)

\* The purchase orders are in USD: only an invoice in another currency has its
\* prices converted, at any of the rate tables or with the rate unavailable
InitMatch ==
    /\ invoice \in InvoicePool
    /\ rateOf \in IF invoice.currency = "USD" THEN {ParityRates}
                  ELSE RateTables \cup {FailingRates}
    /\ invItem = Item(<<>>, 0, 0, "USD")
    /\ poItem = Item(<<>>, 0, 0, "USD")
    /\ itemOut = NoItemOut
    /\ purchaseOrders \in CandidateLists
    /\ matchOut = NoMatchOut
    /\ rules = <<>>
    /\ evalOut = NoEvalOut
    /\ matchThrown = NoError
    /\ ConverterIdle
    /\ RepositoryIdle
    /\ StringsIdle

MatchInvoice ==
    /\ ~matchOut.called
    /\ matchThrown = NoError
    /\ IF matchInvoiceThrows(invoice, purchaseOrders)
       THEN /\ matchThrown' = RateFetchFailure
            /\ UNCHANGED matchOut
       ELSE /\ matchOut' = [called |-> TRUE,
                            scored |-> [i \in 1..Len(purchaseOrders) |->
                                           calculateMatchScore(invoice, purchaseOrders[i])]]
                           @@ matchInvoice(invoice, purchaseOrders)
            /\ UNCHANGED matchThrown
    /\ UNCHANGED <<repositoryVars, rateOf, invItem, poItem, itemOut, invoice,
                   purchaseOrders, engineVars, converterVars, stringVars>>

NextMatch == MatchInvoice

SpecMatch == InitMatch /\ [][NextMatch]_vars

-----------------------------------------------------------------------------
(* Rule engine: addRule and evaluate *)

InitRules ==
    /\ rateOf = ParityRates
    /\ invItem = Item(<<>>, 0, 0, "USD")
    /\ poItem = Item(<<>>, 0, 0, "USD")
    /\ itemOut = NoItemOut
    /\ invoice = [lineItems |-> <<>>, currency |-> "USD"]
    /\ purchaseOrders = <<>>
    /\ matchOut = NoMatchOut
    /\ rules = <<>>
    /\ evalOut = NoEvalOut
    /\ matchThrown = NoError
    /\ ConverterIdle
    /\ RepositoryIdle
    /\ StringsIdle

AddRule(rule) ==
    /\ Len(rules) < MaxRules
    /\ rules' = Append(rules, rule)
    /\ UNCHANGED <<repositoryVars, matcherVars, evalOut, converterVars, stringVars>>

Evaluate(context) ==
    /\ evalOut' = EvaluateFrom(rules, context, 1, <<>>, <<>>)
                    @@ [rules |-> rules, context |-> context]
    /\ UNCHANGED <<repositoryVars, matcherVars, rules, converterVars, stringVars>>

NextRules ==
    \/ \E rule \in RulePool : AddRule(rule)
    \/ \E context \in Contexts : Evaluate(context)

SpecRules == InitRules /\ [][NextRules]_vars

-----------------------------------------------------------------------------
(* CurrencyConverter: convert, the settling of its fetch, clearCache, time *)

InitConverter ==
    /\ rateOf = ParityRates
    /\ invItem = Item(<<>>, 0, 0, "USD")
    /\ poItem = Item(<<>>, 0, 0, "USD")
    /\ itemOut = NoItemOut
    /\ invoice = [lineItems |-> <<>>, currency |-> "USD"]
    /\ purchaseOrders = <<>>
    /\ matchOut = NoMatchOut
    /\ rules = <<>>
    /\ evalOut = NoEvalOut
    /\ matchThrown = NoError
    /\ ConverterIdle
    /\ RepositoryIdle
    /\ StringsIdle

\* The calls that have returned or failed
Finished == {q \in Callers : convertCalls[q].pc \in {"done", "failed"}}

\* A new call takes the first unused position, or replaces a finished call
SlotFree(p) ==
    \/ /\ convertCalls[p].pc = "idle"
       /\ \A q \in Callers : q < p => convertCalls[q].pc # "idle"
    \/ /\ p \in Finished
       /\ \A q \in Callers : convertCalls[q].pc # "idle"

\* One convert call; the calls of one behaviour convert the same amount. The
\* call records what the claims speak of: the calls that had finished when it
\* started, whether it is the first to ask for its key since clearCache, the
\* call whose still unexpired entry for its key was in the cache, and whether
\* the cache held an expired entry for its key.
Convert(p, amount, from, to, date) ==
    /\ callsStarted < MaxCalls
    /\ \A q \in Callers : convertCalls[q].pc # "idle" => convertCalls[q].amount = amount
    /\ SlotFree(p)
    /\ callsStarted' = callsStarted + 1
    /\ LET start == convertStart(amount, from, to, date, rateCache, now)
           key == cacheKey(from, to, date)
       IN /\ convertCalls' = [convertCalls EXCEPT ![p] =
                 [pc |-> start.pc, id |-> callsStarted + 1, amount |-> amount,
                  from |-> from, to |-> to,
                  date |-> date, fetches |-> start.fetches, gets |-> start.gets,
                  rate |-> start.rate, result |-> start.result,
                  error |-> "none", response |-> "none",
                  firstAfterClear |-> (from # to /\ key \in awaiting),
                  seenFrom |-> IF /\ from # to
                                  /\ key \in DOMAIN rateCache
                                  /\ now < rateCache[key].expiresAt
                               THEN rateCache[key].storedBy ELSE 0,
                  stale |-> /\ from # to
                            /\ key \in DOMAIN rateCache
                            /\ rateCache[key].expiresAt <= now,
                  after |-> {convertCalls[q].id : q \in Finished}]]
          /\ awaiting' = IF from # to THEN awaiting \ {key} ELSE awaiting
    /\ UNCHANGED <<repositoryVars, rateCache, now, matcherVars, engineVars, stringVars>>

FetchSettles(p, response) ==
    /\ convertCalls[p].pc = "fetching"
    /\ LET c == convertCalls[p]
           got == fetchedRate(response, c.from, c.to)
       IN IF got.thrown
          THEN /\ convertCalls' = [convertCalls EXCEPT ![p].pc = "failed",
                                                      ![p].error = got.error,
                                                      ![p].response = response.kind]
               /\ UNCHANGED rateCache
          ELSE /\ rateCache' = cacheSet(rateCache, cacheKey(c.from, c.to, c.date),
                                   CacheEntry(c.from, c.to, got.rate,
                                              now + CACHE_TTL, c.id))
               /\ convertCalls' = [convertCalls EXCEPT
                               ![p].pc = "done",
                               ![p].rate = got.rate,
                               ![p].response = response.kind,
                               ![p].result = convert(c.amount, c.from, c.to, got.rate)]
    /\ UNCHANGED <<repositoryVars, now, callsStarted, awaiting, matcherVars, engineVars,
                   stringVars>>

ClearCache ==
    /\ rateCache' = <<>>
    /\ awaiting' = {k \in Keys : k[1] # k[2]}
    /\ UNCHANGED <<repositoryVars, now, convertCalls, callsStarted, matcherVars, engineVars,
                   stringVars>>

\* The clock is read only to compare it with an expiresAt and to stamp a new
\* entry, so its advance is followed only while some entry has not expired
Tick ==
    /\ now < MaxTime
    /\ \E key \in DOMAIN rateCache : rateCache[key].expiresAt > now
    /\ now' = now + 1
    /\ UNCHANGED <<repositoryVars, rateCache, convertCalls, callsStarted, awaiting,
                   matcherVars, engineVars, stringVars>>

NextConverter ==
    \/ \E p \in Callers, amount \in ConvertAmounts, from \in Currencies,
          to \in Currencies, date \in Dates : Convert(p, amount, from, to, date)
    \/ \E p \in Callers, response \in Responses : FetchSettles(p, response)
    \/ ClearCache
    \/ Tick

SpecConverter == InitConverter /\ [][NextConverter]_vars

-----------------------------------------------------------------------------
(* Text similarity, applied to one pair of strings *)

MaxLen == 2

Alphabet == {"a", "A", "b"}

RECURSIVE StringsUpTo(_)
StringsUpTo(n) ==
    IF n = 0 THEN {<<>>}
    ELSE LET shorter == StringsUpTo(n - 1)
         IN shorter \cup {Append(s, c) : s \in shorter, c \in Alphabet}

SimStrings == StringsUpTo(MaxLen)

\* The matcher's description similarity: calculateLevenshtein of the two
\* strings in lower case
similarity(a, b) == calculateLevenshtein(ToLowerCase(a), ToLowerCase(b))

InitSimilarity ==
    /\ rateOf = ParityRates
    /\ invItem = Item(<<>>, 0, 0, "USD")
    /\ poItem = Item(<<>>, 0, 0, "USD")
    /\ itemOut = NoItemOut
    /\ invoice = [lineItems |-> <<>>, currency |-> "USD"]
    /\ purchaseOrders = <<>>
    /\ matchOut = NoMatchOut
    /\ rules = <<>>
    /\ evalOut = NoEvalOut
    /\ matchThrown = NoError
    /\ ConverterIdle
    /\ RepositoryIdle
    /\ simA \in SimStrings
    /\ simB \in SimStrings
    /\ simOut = [op |-> "none", similarity |-> NaN]

Similarity ==
    /\ simOut.op = "none"
    /\ simOut' = [op |-> "similarity", similarity |-> similarity(simA, simB)]
    /\ UNCHANGED <<repositoryVars, simA, simB, matcherVars, engineVars, converterVars>>

NextSimilarity == Similarity

SpecSimilarity == InitSimilarity /\ [][NextSimilarity]_vars

-----------------------------------------------------------------------------
(* The in-memory repository: create, update and delete in any order *)

\* The values crypto.randomUUID() can return
UUIDs == {"uuid-1", "uuid-2", "uuid-3"}

\* The ids a caller can pass: the generated ones and one that never was
CallerIds == UUIDs \cup {"malicious-id-attempt"}

Names == {"Test", "Updated"}

\* Entities handed to create: without an id, or carrying one of their own
NewEntities ==
    {[name |-> n] : n \in Names}
        \cup {[name |-> n, id |-> i] : n \in Names, i \in CallerIds}

\* Partial entities handed to update
Updates ==
    {[name |-> n] : n \in Names}
        \cup {[id |-> i] : i \in CallerIds}
        \cup {[name |-> n, id |-> i] : n \in Names, i \in CallerIds}

InitRepository ==
    /\ rateOf = ParityRates
    /\ invItem = Item(<<>>, 0, 0, "USD")
    /\ poItem = Item(<<>>, 0, 0, "USD")
    /\ itemOut = NoItemOut
    /\ invoice = [lineItems |-> <<>>, currency |-> "USD"]
    /\ purchaseOrders = <<>>
    /\ matchOut = NoMatchOut
    /\ rules = <<>>
    /\ evalOut = NoEvalOut
    /\ matchThrown = NoError
    /\ ConverterIdle
    /\ RepositoryIdle
    /\ StringsIdle

RepositoryCall(op, id, given, outcome) ==
    /\ data' = outcome.data
    /\ repoOut' = [op |-> op, id |-> id, given |-> given, before |-> data,
                   result |-> outcome.result]
    /\ UNCHANGED <<matcherVars, engineVars, converterVars, stringVars>>

Create(entity, id) ==
    RepositoryCall("create", id, entity, create(data, entity, id))

Update(id, updates) ==
    RepositoryCall("update", id, updates, update(data, id, updates))

Delete(id) ==
    RepositoryCall("delete", id, Undefined, delete(data, id))

NextRepository ==
    \/ \E entity \in NewEntities, id \in UUIDs : Create(entity, id)
    \/ \E id \in CallerIds, updates \in Updates : Update(id, updates)
    \/ \E id \in CallerIds : Delete(id)

SpecRepository == InitRepository /\ [][NextRepository]_vars

-----------------------------------------------------------------------------
(* Properties of matchInvoice, checked under SpecMatch *)

Candidates == 1..Len(purchaseOrders)

InvoiceItems == 1..Len(invoice.lineItems)

PairMatches(i, k, j) ==
    matchesLineItem(invoice.lineItems[k], purchaseOrders[i].lineItems[j])

NoLineItemMatches ==
    \A i \in Candidates : \A k \in InvoiceItems :
        \A j \in 1..Len(purchaseOrders[i].lineItems) : ~PairMatches(i, k, j)

\* C1: when no purchase-order line item of any candidate satisfies matches for
\* any invoice line item (the empty candidate list included), matchInvoice
\* returns bestMatch = null, confidence = the number 0 (not NaN) and
\* reasons = ["No matching purchase orders found"].
C1_NoMatchResult ==
    (matchOut.called /\ NoLineItemMatches) =>
        /\ matchOut.bestMatch = NoPurchaseOrder
        /\ matchOut.confidence = N(0)
        /\ matchOut.reasons = <<"No matching purchase orders found">>

C1_Witness ==
    /\ matchOut.called
    /\ NoLineItemMatches
    /\ Len(purchaseOrders) >= 2
    /\ \A i \in Candidates : IsNaN(matchOut.scored[i].confidence)
    /\ matchOut.confidence = N(0)

ConfidenceOf(i) == matchOut.scored[i].confidence

AdmittedCandidates == {i \in Candidates : Ge(ConfidenceOf(i), Q(90, 100))}

\* Candidate j is ranked before candidate i: higher confidence, or the same
\* confidence and earlier in the input
RankedBefore(j, i) ==
    \/ Gt(ConfidenceOf(j), ConfidenceOf(i))
    \/ ConfidenceOf(j) = ConfidenceOf(i) /\ j < i

RankOf(i) == Cardinality({j \in AdmittedCandidates : RankedBefore(j, i)})

\* The purchase orders of the result, bestMatch first
Ranking ==
    IF matchOut.bestMatch = NoPurchaseOrder THEN <<>>
    ELSE <<matchOut.bestMatch>>
         \o [k \in 1..Len(matchOut.alternatives) |->
                matchOut.alternatives[k].purchaseOrder]

MatchedItemsOf(i) ==
    {k \in InvoiceItems :
        \E j \in 1..Len(purchaseOrders[i].lineItems) : PairMatches(i, k, j)}

FirstMatchOf(i, k) ==
    CHOOSE j \in 1..Len(purchaseOrders[i].lineItems) :
        /\ PairMatches(i, k, j)
        /\ \A j2 \in 1..(j - 1) : ~PairMatches(i, k, j2)

PairScore(i, k) ==
    calculateLineItemScore(invoice.lineItems[k],
                           purchaseOrders[i].lineItems[FirstMatchOf(i, k)])

RECURSIVE SumOfPairScores(_, _)
SumOfPairScores(i, K) ==
    IF K = {} THEN N(0)
    ELSE LET k == CHOOSE x \in K : TRUE
         IN Add(PairScore(i, k), SumOfPairScores(i, K \ {k}))

\* C6: a candidate's confidence is the arithmetic mean of score() over its
\* matched pairs only: with k >= 1 of n invoice line items matched,
\* matchedItems = k <= totalItems = n, confidence = (sum of the k scores) / k,
\* and confidence = s when every matched pair scores s.
C6_MeanOverMatched ==
    matchOut.called =>
        \A i \in Candidates :
            LET K == MatchedItemsOf(i)
                score == matchOut.scored[i]
            IN /\ score.matchedItems = Cardinality(K)
               /\ score.totalItems = Len(invoice.lineItems)
               /\ score.matchedItems <= score.totalItems
               /\ K # {} =>
                     /\ score.confidence =
                           Div(SumOfPairScores(i, K), N(Cardinality(K)))
                     /\ \A k0 \in K :
                           (\A k \in K : PairScore(i, k) = PairScore(i, k0))
                               => score.confidence = PairScore(i, k0)

C6_Witness ==
    /\ matchOut.called
    /\ \E i \in Candidates :
          /\ matchOut.scored[i].matchedItems = 1
          /\ matchOut.scored[i].totalItems = 2
          /\ matchOut.scored[i].confidence = N(1)
    /\ \E i \in Candidates :
          /\ matchOut.scored[i].matchedItems = 2
          /\ IsFinite(matchOut.scored[i].confidence)
          /\ Lt(matchOut.scored[i].confidence, N(1))

-----------------------------------------------------------------------------
(* Properties of matchesLineItem, checked under SpecItem *)

\* Text similarity as specified: case-insensitive, 1 for two empty strings
SimilarityAsSpecified(a, b) ==
    IF a = <<>> /\ b = <<>> THEN N(1)
    ELSE Sub(N(1), Div(N(EditDistance(ToLowerCase(a), ToLowerCase(b))),
                       N(Max2(Len(a), Len(b)))))

\* |a - b| / b <= tol, a zero reference value b counting as out of tolerance
WithinTolerance(a, b, tol) ==
    b # N(0) /\ Le(Div(MathAbs(Sub(a, b)), b), tol)

AllThreeHold ==
    /\ Ge(SimilarityAsSpecified(invItem.description, poItem.description), Q(85, 100))
    /\ WithinTolerance(N(invItem.quantity), N(poItem.quantity), Q(2, 100))
    /\ WithinTolerance(convertPrice(invItem.unitPrice, poItem.unitPrice.currency),
                       N(poItem.unitPrice.amount), Q(2, 100))

\* C4: matches(invItem, poItem) is true exactly when description similarity
\* >= 0.85, |invQty - poQty| / poQty <= 0.02 and |invPrice' - poPrice| / poPrice
\* <= 0.02, invPrice' being the invoice unit price in the PO item's currency.
C4_MatchesIffAllThree ==
    itemOut.op = "matches" => (itemOut.matches <=> AllThreeHold)

\* C4 restricted to purchase-order items whose quantity and unit price are not
\* zero: there the gate is exactly the three conditions.
C4_OnNonZeroReference ==
    (/\ itemOut.op = "matches"
     /\ poItem.quantity # 0
     /\ poItem.unitPrice.amount # 0) => (itemOut.matches <=> AllThreeHold)

\* C5: when the purchase-order quantity or unit price is zero, matches is
\* false for every invoice-side value, a zero one included.
C5_ZeroReferenceNeverMatches ==
    (/\ itemOut.op = "matches"
     /\ (poItem.quantity = 0 \/ poItem.unitPrice.amount = 0)) => ~itemOut.matches

-----------------------------------------------------------------------------
(* Properties of matchInvoice: errors and explanation, checked under SpecMatch *)

\* A rate fetch fails while some candidate is scored: some pair of an invoice
\* line item and a line item of a candidate passes the description and the
\* quantity gate, needs a conversion, and the rate is unavailable
RateFetchFailsInScoring ==
    \E i \in Candidates, k \in InvoiceItems :
        \E j \in 1..Len(purchaseOrders[i].lineItems) :
            LET inv == invoice.lineItems[k]
                po == purchaseOrders[i].lineItems[j]
            IN /\ rateOf = FailingRates
               /\ inv.unitPrice.currency # po.unitPrice.currency
               /\ po.quantity # 0
               /\ Le(Div(N(AbsInt(inv.quantity - po.quantity)), N(po.quantity)),
                     Q(2, 100))
               /\ Ge(SimilarityAsSpecified(inv.description, po.description),
                     Q(85, 100))

MatchInvoiceSettled == matchOut.called \/ matchThrown # NoError

CurrencyNote == "Currency conversion applied"

HasCurrencyNote == \E r \in 1..Len(matchOut.reasons) : matchOut.reasons[r] = CurrencyNote

\* C16: when matchInvoice returns a non-null bestMatch, reasons contains a
\* currency-conversion note exactly when invoice.currency differs from
\* bestMatch.currency; when bestMatch is null there is no such note.
C16_CurrencyNote ==
    matchOut.called =>
        IF matchOut.bestMatch # NoPurchaseOrder
        THEN HasCurrencyNote <=> (invoice.currency # matchOut.bestMatch.currency)
        ELSE ~HasCurrencyNote

C16_Witness ==
    /\ matchOut.called
    /\ matchOut.bestMatch # NoPurchaseOrder
    /\ invoice.currency = "EUR"
    /\ matchOut.bestMatch.currency = "USD"
    /\ HasCurrencyNote

-----------------------------------------------------------------------------
(* Properties of the rule engine, checked under SpecRules *)

Evaluated == evalOut.outcome # "none"

\* What rule k of the evaluated engine returns for the evaluated context
ResultOfRule(k) == RuleEvaluate(evalOut.rules[k], evalOut.context)

FailsWithError(r) == ~r.passed /\ r.severity = "error"

ErrorRules == {k \in 1..Len(evalOut.rules) : FailsWithError(ResultOfRule(k))}

FirstErrorRule == CHOOSE k \in ErrorRules : \A m \in ErrorRules : k <= m

\* The rules whose evaluate was invoked, in invocation order
Invoked == [k \in 1..Len(evalOut.calls) |-> evalOut.calls[k].rule]

\* C7: evaluate is fail-fast: at the first rule returning passed = false with
\* severity error it raises BusinessRuleViolationError carrying that rule's
\* explanation and result, invokes no rule registered after it, and returns
\* no EvaluationResult.
C7_FailFast ==
    (Evaluated /\ ErrorRules # {}) =>
        /\ evalOut.outcome = "thrown"
        /\ evalOut.returned = NoEvaluationResult
        /\ evalOut.thrown.name = "BusinessRuleViolationError"
        /\ evalOut.thrown.rule = RuleExplain(evalOut.rules[FirstErrorRule])
        /\ evalOut.thrown.result = ResultOfRule(FirstErrorRule)
        /\ Invoked = [k \in 1..FirstErrorRule |-> k]

C7_Witness ==
    /\ evalOut.outcome = "thrown"
    /\ Len(evalOut.rules) = 3
    /\ Len(evalOut.calls) = 2
    /\ evalOut.rules[3].kind = "fixed"
    /\ evalOut.rules[3].result.passed

IsWarningResult(r) == r.passed = FALSE /\ r.severity = "warning"

\* C8: when no rule produces an error-level failure, evaluate returns an
\* EvaluationResult whose passed is true exactly when every RuleResult passed
\* and whose warnings is exactly the subsequence of results, in order, with
\* passed = false and severity = warning.
C8_EvaluationResult ==
    (Evaluated /\ ErrorRules = {}) =>
        /\ evalOut.outcome = "returned"
        /\ evalOut.thrown = NoError
        /\ evalOut.returned.passed =
              (\A k \in 1..Len(evalOut.returned.results) :
                  evalOut.returned.results[k].passed)
        /\ evalOut.returned.warnings =
              SelectSeq(evalOut.returned.results, IsWarningResult)

C8_Witness ==
    /\ evalOut.outcome = "returned"
    /\ Len(evalOut.returned.results) = 3
    /\ Len(evalOut.returned.warnings) = 1
    /\ \E k \in 1..3 : evalOut.returned.results[k].passed
    /\ \E k \in 1..3 :
          /\ ~evalOut.returned.results[k].passed
          /\ evalOut.returned.results[k].severity = "info"

\* The calls made to tolerance rules, each with the two field values compared
ToleranceCalls ==
    {k \in 1..Len(evalOut.calls) :
        evalOut.rules[evalOut.calls[k].rule].kind = "tolerance"}

RuleOfCall(k) == evalOut.rules[evalOut.calls[k].rule]

ExpectedOfCall(k) == evalOut.context.purchaseOrder[RuleOfCall(k).field]

ActualOfCall(k) == evalOut.context.invoice[RuleOfCall(k).field]

RelativeDifference(k) ==
    Div(MathAbs(Sub(ActualOfCall(k).v, ExpectedOfCall(k).v)), ExpectedOfCall(k).v)

\* C9: with numeric expected and actual and d = |actual - expected| / expected,
\* ToleranceRule(t, field) passes when d <= t percent, otherwise fails with
\* severity warning when d <= t% + 5% and with severity error beyond that.
C9_ToleranceBands ==
    \A k \in ToleranceCalls :
        (ExpectedOfCall(k).t = "number" /\ ActualOfCall(k).t = "number") =>
            LET d == RelativeDifference(k)
                t == Q(RuleOfCall(k).tolerance, 100)
                r == evalOut.calls[k].result
            IN IF Le(d, t) THEN r.passed
               ELSE /\ ~r.passed
                    /\ r.severity =
                         (IF Le(d, Add(t, Q(5, 100))) THEN "warning" ELSE "error")

\* C9 as amended: with numeric expected and actual, the rule passes (severity
\* info) when d <= t percent; otherwise it fails, with severity warning when
\* d <= 5% and with severity error when d > 5% or d is not a number. The
\* warning bound is the fixed 5%, not t% + 5%.
C9_FixedWarningBound ==
    \A k \in ToleranceCalls :
        (ExpectedOfCall(k).t = "number" /\ ActualOfCall(k).t = "number") =>
            LET d == RelativeDifference(k)
                t == Q(RuleOfCall(k).tolerance, 100)
                r == evalOut.calls[k].result
            IN IF Le(d, t) THEN r.passed /\ r.severity = "info"
               ELSE /\ ~r.passed
                    /\ r.severity = (IF Le(d, Q(5, 100)) THEN "warning" ELSE "error")

C9_Witness ==
    /\ evalOut.outcome = "thrown"
    /\ \E k \in ToleranceCalls :
          /\ ExpectedOfCall(k) = Number(100)
          /\ ActualOfCall(k) = Number(106)
          /\ RuleOfCall(k).tolerance = 2
          /\ ~evalOut.calls[k].result.passed
          /\ evalOut.calls[k].result.severity = "error"

\* C10: when the rule's field is missing or non-numeric on the invoice or on
\* the purchase order, ToleranceRule.evaluate returns passed = true with
\* severity info, so evaluate does not raise because of that rule.
C10_NonNumericIsInfo ==
    \A k \in ToleranceCalls :
        (ExpectedOfCall(k).t # "number" \/ ActualOfCall(k).t # "number") =>
            /\ evalOut.calls[k].result.passed
            /\ evalOut.calls[k].result.severity = "info"
            /\ ~(evalOut.outcome = "thrown" /\ k = Len(evalOut.calls))

-----------------------------------------------------------------------------
(* Properties of CurrencyConverter, checked under SpecConverter *)

SameKey(a, b) == a.from = b.from /\ a.to = b.to /\ a.date = b.date

\* C11: convert(amount, c, c) returns exactly {amount, currency: c}, performs
\* no fetch, and neither reads nor changes the rate cache, whatever the cache
\* holds: every step that starts such a call completes it with that result,
\* with no fetch and no cache lookup, and leaves the cache as it was.
C11_SameCurrencyIdentity ==
    [][\A p \in Callers :
          (/\ convertCalls'[p].id # convertCalls[p].id
           /\ convertCalls'[p].from = convertCalls'[p].to) =>
              /\ convertCalls'[p].pc = "done"
              /\ convertCalls'[p].result =
                     Money(convertCalls'[p].amount, convertCalls'[p].to)
              /\ convertCalls'[p].fetches = 0
              /\ convertCalls'[p].gets = 0
              /\ rateCache' = rateCache]_vars

C11_Witness ==
    \E p \in Callers :
        /\ convertCalls[p].pc = "done"
        /\ convertCalls[p].from = convertCalls[p].to
        /\ convertCalls[p].result = Money(convertCalls[p].amount, convertCalls[p].to)
        /\ convertCalls[p].id = 2
        /\ rateCache # <<>>

\* C12: when a convert call A with from # to has fetched its rate and returned,
\* and a call B with the same key starts after A returned and before the
\* expiresAt of the entry A stored, B performs no fetch (one fetch in total)
\* and returns the same amount as A for the same input amount.
C12_SecondCallServedFromCache ==
    \A p, q \in Callers :
        LET A == convertCalls[p]
            B == convertCalls[q]
        IN (/\ A.pc = "done" /\ A.from # A.to /\ A.fetches = 1
            /\ B.pc # "idle" /\ SameKey(A, B)
            /\ A.id \in B.after
            /\ B.seenFrom = A.id) =>
               /\ B.pc = "done"
               /\ A.fetches + B.fetches = 1
               /\ (A.amount = B.amount => B.result = A.result)

C12_Witness ==
    \E p, q \in Callers :
        /\ convertCalls[p].pc = "done" /\ convertCalls[p].fetches = 1
        /\ convertCalls[p].response = "ok"
        /\ convertCalls[q].pc = "done" /\ convertCalls[q].fetches = 0
        /\ convertCalls[q].from # convertCalls[q].to
        /\ SameKey(convertCalls[p], convertCalls[q])
        /\ convertCalls[p].id \in convertCalls[q].after
        /\ convertCalls[q].seenFrom = convertCalls[p].id
        /\ convertCalls[q].result = convertCalls[p].result

FailedResponses == {"networkError", "notOk", "invalidJson", "noRateForTarget"}

\* C13: whenever the rate fetch fails (network error, non-2xx response, or a
\* malformed payload such as one with no rate for the target currency), the
\* convert call fails with an error, returns no Money, and made exactly one
\* fetch attempt.
C13_FetchFailureFails ==
    \A p \in Callers :
        convertCalls[p].response \in FailedResponses =>
            /\ convertCalls[p].pc = "failed"
            /\ convertCalls[p].error # "none"
            /\ convertCalls[p].result = NoMoney
            /\ convertCalls[p].fetches = 1

\* C13 for the failures that throw inside getExchangeRate: no answer, a
\* non-2xx status, a body that is not JSON.
C13_ThrownFailuresFail ==
    \A p \in Callers :
        convertCalls[p].response \in FailedResponses \ {"noRateForTarget"} =>
            /\ convertCalls[p].pc = "failed"
            /\ convertCalls[p].error # "none"
            /\ convertCalls[p].result = NoMoney
            /\ convertCalls[p].fetches = 1

\* C14: the first convert call started after clearCache for a key with
\* from # to triggers a fetch, in every interleaving.
C14_FirstCallAfterClearFetches ==
    \A p \in Callers :
        convertCalls[p].firstAfterClear => convertCalls[p].fetches = 1

\* C14 when no call was waiting for its fetch at the time of clearCache and
\* none stored a rate since: the cache is then still empty and the call fetches.
C14_FetchesWhenCacheStillEmpty ==
    [][\A p \in Callers :
          (/\ convertCalls'[p].id # convertCalls[p].id
           /\ convertCalls'[p].firstAfterClear
           /\ rateCache = <<>>) => convertCalls'[p].fetches = 1]_vars

\* x rounded to 4 decimal places, halves away from zero
RoundHalfAwayFromZero4(x) ==
    LET scaled == Mul(MathAbs(x), N(10000))
        whole == (2 * scaled.n + scaled.d) \div (2 * scaled.d)
    IN Q(SignInt(x.n) * whole, 10000)

-----------------------------------------------------------------------------
(* Properties of the text similarity, checked under SpecSimilarity *)

\* Equality of two JavaScript numbers (===): NaN equals nothing
NumbersEqual(x, y) == ~IsNaN(x) /\ ~IsNaN(y) /\ x = y

\* C17: similarity(s, s) = 1.0 for every string s, the empty string included.
C17_SelfSimilarityIsOne ==
    (simOut.op = "similarity" /\ simA = simB) =>
        NumbersEqual(simOut.similarity, N(1))

\* C17 for non-empty strings.
C17_NonEmptySelfSimilarityIsOne ==
    (simOut.op = "similarity" /\ simA = simB /\ simA # <<>>) =>
        NumbersEqual(simOut.similarity, N(1))

\* C18: similarity(a, b) = similarity(b, a) and 0 <= similarity(a, b) <= 1.
C18_SymmetricAndBounded ==
    simOut.op = "similarity" =>
        /\ NumbersEqual(simOut.similarity, similarity(simB, simA))
        /\ Le(N(0), simOut.similarity)
        /\ Le(simOut.similarity, N(1))

\* C18 for every pair other than the two empty strings.
C18_UnlessBothEmpty ==
    (simOut.op = "similarity" /\ ~(simA = <<>> /\ simB = <<>>)) =>
        /\ NumbersEqual(simOut.similarity, similarity(simB, simA))
        /\ Le(N(0), simOut.similarity)
        /\ Le(simOut.similarity, N(1))

\* The Levenshtein distance by its recurrence: unit-cost insertion, deletion
\* and substitution
RECURSIVE Levenshtein(_, _)
Levenshtein(a, b) ==
    IF a = <<>> THEN Len(b)
    ELSE IF b = <<>> THEN Len(a)
    ELSE IF Head(a) = Head(b) THEN Levenshtein(Tail(a), Tail(b))
    ELSE 1 + Min3(Levenshtein(Tail(a), b),
                  Levenshtein(a, Tail(b)),
                  Levenshtein(Tail(a), Tail(b)))

\* C19: similarity(a, b) = 1 - editDistance(a', b') / max(len(a), len(b)), a'
\* and b' being a and b in lower case and editDistance the Levenshtein
\* distance; two strings that differ only in letter case have similarity 1.
C19_NormalizedLevenshtein ==
    simOut.op = "similarity" =>
        /\ simOut.similarity =
              Sub(N(1), Div(N(Levenshtein(ToLowerCase(simA), ToLowerCase(simB))),
                            N(Max2(Len(simA), Len(simB)))))
        /\ (simA # simB /\ ToLowerCase(simA) = ToLowerCase(simB)) =>
              NumbersEqual(simOut.similarity, N(1))

C19_Witness ==
    /\ simOut.op = "similarity"
    /\ simA = <<"a", "A">>
    /\ simB = <<"A", "a">>
    /\ simOut.similarity = N(1)

-----------------------------------------------------------------------------
(* Order of evaluation, checked under SpecRules *)

\* C27: when no rule produces an error-level failure, evaluate invokes the
\* evaluate method of every registered rule exactly once, in the order of
\* registration, results holds exactly one RuleResult per rule in that order,
\* and the registered rules are left as they were (later addRule calls only
\* append to them).
C27_EveryRuleOnceInOrder ==
    (Evaluated /\ ErrorRules = {}) =>
        /\ Invoked = [k \in 1..Len(evalOut.rules) |-> k]
        /\ Len(evalOut.returned.results) = Len(evalOut.rules)
        /\ \A k \in 1..Len(evalOut.rules) :
              /\ evalOut.returned.results[k] = ResultOfRule(k)
              /\ evalOut.calls[k].result = ResultOfRule(k)
        /\ Len(evalOut.rules) <= Len(rules)
        /\ SubSeq(rules, 1, Len(evalOut.rules)) = evalOut.rules

\* Three different rules evaluated without an error-level failure, the first
\* of them with a warning
C27_Witness ==
    /\ evalOut.outcome = "returned"
    /\ Len(evalOut.rules) = 3
    /\ Len(evalOut.returned.results) = 3
    /\ ~evalOut.returned.results[1].passed
    /\ evalOut.returned.results[3].passed
    /\ evalOut.rules[1] # evalOut.rules[2]
    /\ evalOut.rules[2] # evalOut.rules[3]
    /\ rules = evalOut.rules

-----------------------------------------------------------------------------
(* The life of a cache entry, checked under SpecConverter *)

\* The call at position p has just been started by this step
Starts(p) == convertCalls'[p].id # convertCalls[p].id

\* The call at position p has its fetch settled by this step
Settles(p) == convertCalls[p].pc = "fetching" /\ convertCalls'[p].pc # "fetching"

KeyOf(call) == cacheKey(call.from, call.to, call.date)

\* C23: a cached rate is used only while now < expiresAt. A convert call with
\* from # to that finds the entry for its key unexpired returns from it
\* without a fetch; one that finds it expired (expiresAt <= now) or absent
\* performs a fetch, and when the fetch returns, the entry for the key becomes
\* the fetched rate with expiresAt = now + CACHE_TTL.
C23_UsedWhileUnexpired ==
    [][\A p \in Callers :
          LET c == convertCalls'[p]
              key == KeyOf(c)
          IN /\ (Starts(p) /\ c.from # c.to) =>
                   IF key \in DOMAIN rateCache /\ now < rateCache[key].expiresAt
                   THEN /\ c.pc = "done"
                        /\ c.fetches = 0
                        /\ c.rate = rateCache[key].rate.rate
                   ELSE /\ c.pc = "fetching"
                        /\ c.fetches = 1
             /\ (Settles(p) /\ c.pc = "done") =>
                   /\ key \in DOMAIN rateCache'
                   /\ rateCache'[key].rate = [from |-> c.from, to |-> c.to, rate |-> c.rate]
                   /\ rateCache'[key].expiresAt = now + CACHE_TTL
                   /\ c.result = convert(c.amount, c.from, c.to, c.rate)]_vars

\* A call that found the entry of an earlier call expired has fetched a rate
\* and its entry, good for one more lifetime, has taken the place of the old
C23_Witness ==
    \E p, q \in Callers :
        /\ convertCalls[q].pc = "done" /\ convertCalls[q].response = "ok"
        /\ convertCalls[p].pc = "done" /\ convertCalls[p].response = "ok"
        /\ convertCalls[p].stale
        /\ convertCalls[q].id \in convertCalls[p].after
        /\ SameKey(convertCalls[p], convertCalls[q])
        /\ convertCalls[p].rate # convertCalls[q].rate
        /\ rateCache[KeyOf(convertCalls[p])].storedBy = convertCalls[p].id
        /\ rateCache[KeyOf(convertCalls[p])].expiresAt = now + CACHE_TTL

\* Two calls neither of which had finished when the other started
Interleaved(a, b) ==
    /\ a.pc # "idle" /\ b.pc # "idle"
    /\ a.id # b.id
    /\ a.id \notin b.after /\ b.id \notin a.after

CompleteEntry(entry) ==
    /\ DOMAIN entry = {"rate", "expiresAt", "storedBy"}
    /\ DOMAIN entry.rate = {"from", "to", "rate"}
    /\ entry.expiresAt <= now + CACHE_TTL

\* C24: when two convert calls for the same uncached key interleave, each
\* performs its own fetch (two fetches for the key), each completes with a
\* Money computed from the rate of its own fetch once that fetch has returned,
\* and in every state the cache maps the key to at most one entry, which is
\* complete: a rate together with its expiresAt.
C24_InterleavedFetches ==
    /\ \A key \in DOMAIN rateCache : key \in Keys /\ CompleteEntry(rateCache[key])
    /\ \A p, q \in Callers :
          LET A == convertCalls[p]
              B == convertCalls[q]
          IN (/\ Interleaved(A, B) /\ SameKey(A, B) /\ A.from # A.to
              /\ A.seenFrom = 0 /\ B.seenFrom = 0) =>
                 /\ A.fetches = 1 /\ B.fetches = 1
                 /\ A.response \in {"ok", "noRateForTarget"} =>
                       /\ A.pc = "done"
                       /\ A.result = convert(A.amount, A.from, A.to, A.rate)
                       /\ A.result.currency = A.to
                 /\ A.response = "none" => A.pc = "fetching"

\* Two interleaved calls for one key have both fetched and returned, with
\* different rates, and the cache holds one entry for the key
C24_Witness ==
    \E p, q \in Callers :
        LET A == convertCalls[p]
            B == convertCalls[q]
        IN /\ Interleaved(A, B) /\ SameKey(A, B) /\ A.from # A.to
           /\ A.fetches = 1 /\ B.fetches = 1
           /\ A.pc = "done" /\ B.pc = "done"
           /\ A.response = "ok" /\ B.response = "ok"
           /\ A.rate # B.rate
           /\ A.result # B.result
           /\ KeyOf(A) \in DOMAIN rateCache
           /\ rateCache[KeyOf(A)].rate.rate = B.rate

\* clearCache has run since the call started its fetch, and no later call has
\* asked for the call's key
ClearedSinceStart(call) ==
    /\ call.pc # "idle" /\ call.from # call.to /\ call.fetches = 1
    /\ KeyOf(call) \in awaiting

ThrownResponses == {"networkError", "notOk", "invalidJson"}

\* C25: a convert call that clearCache overtook is not failed by it and its
\* result is not changed by it: while its fetch is pending it stays suspended,
\* it fails only when its own fetch throws, and when its fetch returns a rate
\* it returns the Money computed from that rate.
C25_ClearCacheSparesInFlight ==
    \A p \in Callers :
        LET c == convertCalls[p]
        IN ClearedSinceStart(c) =>
              /\ c.response = "none" => c.pc = "fetching"
              /\ c.pc = "failed" => c.response \in ThrownResponses
              /\ c.response = "ok" =>
                    /\ c.pc = "done"
                    /\ c.rate \in FetchedRates
                    /\ c.result = convert(c.amount, c.from, c.to, c.rate)

\* The cache was cleared while the call was suspended in its fetch (its entry
\* was stored after clearCache, which ran after the call had started), and
\* the call has returned the Money of its own rate
C25_Witness ==
    \E p \in Callers :
        LET c == convertCalls[p]
        IN /\ ClearedSinceStart(c)
           /\ c.pc = "done" /\ c.response = "ok" /\ c.fetches = 1
           /\ KeyOf(c) \in DOMAIN rateCache
           /\ rateCache[KeyOf(c)].storedBy = c.id
           /\ c.result = convert(c.amount, c.from, c.to, c.rate)
           /\ ~IsNaN(c.result.amount)

C28_EntriesHoldPositiveRate ==
    \A key \in DOMAIN rateCache :
        LET entry == rateCache[key]
        IN /\ entry.rate.from = key[1]
           /\ entry.rate.to = key[2]
           /\ IsFinite(entry.rate.rate)
           /\ Gt(entry.rate.rate, N(0))

\* What the code keeps: the from and to of an entry are those of its key, and
\* its rate is whatever the body of the response held for the target
C28_EntriesKeyedByOwnCurrencies ==
    \A key \in DOMAIN rateCache :
        /\ rateCache[key].rate.from = key[1]
        /\ rateCache[key].rate.to = key[2]
        /\ rateCache[key].rate.rate \in FetchedRates \cup {NaN}

\* C29: a convert call whose rate fetch fails (network error, non-2xx
\* response or malformed payload) leaves the rate cache as it was: no entry
\* of the cache was stored by it, and no later call is served a value from
\* it instead of fetching.
C29_FailedFetchLeavesCache ==
    \A p \in Callers :
        LET c == convertCalls[p]
        IN c.response \in FailedResponses =>
              /\ \A key \in DOMAIN rateCache : rateCache[key].storedBy # c.id
              /\ \A q \in Callers :
                    (convertCalls[q].pc # "idle" /\ convertCalls[q].fetches = 0)
                        => convertCalls[q].seenFrom # c.id

\* What the code keeps: the step in which a fetch throws changes nothing in
\* the cache
C29_ThrownFailureLeavesCache ==
    [][\A p \in Callers :
          (Settles(p) /\ convertCalls'[p].pc = "failed") =>
              /\ rateCache' = rateCache
              /\ convertCalls'[p].response \in ThrownResponses]_vars

-----------------------------------------------------------------------------
(* Pairing of line items, checked under SpecMatch *)

\* C22: within the evaluation of one candidate, no purchase-order line item
\* is paired with two invoice line items, so matchedItems never exceeds the
\* number of the candidate's line items.
C22_EachPoItemPairedOnce ==
    matchOut.called =>
        \A i \in Candidates :
            /\ \A k1, k2 \in MatchedItemsOf(i) :
                  k1 # k2 => FirstMatchOf(i, k1) # FirstMatchOf(i, k2)
            /\ matchOut.scored[i].matchedItems <= Len(purchaseOrders[i].lineItems)

\* What the listing does: every matched invoice line item is paired with the
\* first purchase-order line item that matches it, paired before or not
C22_PairedWithFirstMatch ==
    matchOut.called =>
        \A i \in Candidates :
            matchOut.scored[i].matchedItems = Cardinality(MatchedItemsOf(i))

-----------------------------------------------------------------------------
(* The range of the score of a matched pair *)

InScoreRange(score) == Ge(score, Q(928, 1000)) /\ Le(score, N(1))

\* C30: with the default thresholds every pair of line items that satisfies
\* matches has a score in [0.928, 1]; so every candidate with at least one
\* matched pair is admitted, and matchInvoice returns no bestMatch if and only
\* if no candidate has any matched pair.
C30_MatchedPairsAdmit ==
    matchOut.called =>
        /\ \A i \in Candidates :
              /\ \A k \in MatchedItemsOf(i) : InScoreRange(PairScore(i, k))
              /\ MatchedItemsOf(i) # {} => Admitted(matchOut.scored[i])
        /\ (matchOut.bestMatch = NoPurchaseOrder)
              <=> (\A i \in Candidates : MatchedItemsOf(i) = {})

\* What holds of the gate and the score: a matched pair whose purchase-order
\* quantity and unit price are not zero and whose descriptions are not both
\* empty scores within [0.928, 1]. Checked under SpecItem.
C30_RangeOnDefinedInputs ==
    (/\ itemOut.op = "matches" /\ itemOut.matches
     /\ poItem.quantity # 0
     /\ poItem.unitPrice.amount # 0
     /\ ~(invItem.description = <<>> /\ poItem.description = <<>>))
        => InScoreRange(itemOut.score)

-----------------------------------------------------------------------------
(* Properties of InMemoryRepository, checked under SpecRepository *)

StoredUnderOwnId == \A k \in DOMAIN data : data[k].id = k

MissingIdCall ==
    /\ repoOut.op \in {"update", "delete"}
    /\ repoOut.id \notin DOMAIN repoOut.before

UpdateOfStored ==
    /\ repoOut.op = "update"
    /\ repoOut.id \in DOMAIN repoOut.before

\* C21: every stored entity's id equals the key it is stored under; an update
\* of a stored id answers Ok with an entity that keeps that id, whatever id
\* the updates carry; an update or delete of an id that is not stored answers
\* Err and leaves the store as it was.
C21_IdEqualsKey ==
    /\ StoredUnderOwnId
    /\ UpdateOfStored =>
          /\ repoOut.result.ok
          /\ repoOut.result.value.id = repoOut.id
          /\ data[repoOut.id] = repoOut.result.value
    /\ MissingIdCall =>
          /\ ~repoOut.result.ok
          /\ data = repoOut.before

\* An update of a stored entity whose updates carry a different id
C21_Witness ==
    /\ UpdateOfStored
    /\ "id" \in DOMAIN repoOut.given
    /\ repoOut.given.id # repoOut.id
    /\ repoOut.result.ok
    /\ Cardinality(DOMAIN data) >= 2

\* A delete of an id that is not stored, with other entities in the store
C21_MissingWitness ==
    /\ MissingIdCall
    /\ repoOut.op = "delete"
    /\ DOMAIN data # {}

====
